---- MODULE Spec2Model ----
(***************************************************************************)
(* Model of viser/_gui.py: one GUI control (_GuiHandleState) behind its    *)
(* handle (GuiHandle / GuiSelectHandle), the outbound message queue of the *)
(* MessageApi it writes to, and the observers registered on it.            *)
(*                                                                         *)
(* Python values are tagged records [t, s, e, b]: t is the Python type,    *)
(* s the text of a str, e the elements of a tuple/list, b the truth value  *)
(* of a bool.  Numbers are [k, n] with k the Python number type.           *)
(* A message queued through api._queue holds the configuration as it is    *)
(* at the moment of the _queue call.                                       *)
(***************************************************************************)
EXTENDS Integers, Sequences, FiniteSets, TLC

\* ---------------------------------------------------------------- bounds
MaxCalls == 3       \* calls made on the handle in one behaviour
MaxOpts == 2        \* longest option list set_options is offered
VecLen == 2         \* elements of the vector control's value and of 1-D arrays

\* ---------------------------------------------------------------- values
Strings == {"a", "b", "c"}
Callbacks == {"cb1", "cb2"}
Names == {"gui_x", "gui_y"}
\* Observers that do more than read the handle when they are invoked:
\*   cb_raise       raises
\*   cb_register    calls handle.on_update(cb2)
\*   cb_unregister  removes itself from handle._impl.update_cb
\*   cb_set         calls handle.set_value(t) unless get_value() is t already
Threads == {"t1", "t2"}
IdleThread == [pc |-> "idle", v |-> "None", t |-> 0, i |-> 0, returned |-> 0]
ActiveCallbacks == {"cb_raise", "cb_register", "cb_unregister", "cb_set"}

Int_(n) == [k |-> "int", n |-> n]
Float_(n) == [k |-> "float", n |-> n]
Str(s) == [t |-> "str", s |-> s, e |-> <<>>, b |-> FALSE]
Tuple_(e) == [t |-> "tuple", s |-> "", e |-> e, b |-> FALSE]
List_(e) == [t |-> "list", s |-> "", e |-> e, b |-> FALSE]
Bool(b) == [t |-> "bool", s |-> "", e |-> <<>>, b |-> b]
Dict_(keys, e) == [t |-> "dict", s |-> keys, e |-> e, b |-> FALSE]
\* onp.ndarray: its shape, and its elements in row-major order
NdArray(shape, data) == [t |-> "ndarray", shape |-> shape, e |-> data]

SeqsOf(S, n) == [1..n -> S]
SeqsUpTo(S, n) == UNION {SeqsOf(S, i) : i \in 0..n}
Elems(s) == {s[i] : i \in 1..Len(s)}
\* option lists a caller passes: no option twice, at most MaxOpts options
OptionLists ==
    {o \in SeqsUpTo({Str(x) : x \in Strings}, MaxOpts) :
        \A i, j \in 1..Len(o) : i # j => o[i] # o[j]}
\* dct[k] = v on a Python dict
DictSet(dct, k, v) == (k :> v) @@ dct

\* element sequences of length n: a ramp 1..n and its reverse n..1
Ramp(n) == [i \in 1..n |-> i]
Down(n) == [i \in 1..n |-> n + 1 - i]
Floats(ns) == [i \in 1..Len(ns) |-> Float_(ns[i])]
Ints(ns) == [i \in 1..Len(ns) |-> Int_(ns[i])]
Zeros == Floats([i \in 1..VecLen |-> 0])
Arrays0D == {NdArray(<<>>, <<Float_(1)>>)}
Arrays1D == {NdArray(<<VecLen>>, Ints(Ramp(VecLen))), NdArray(<<VecLen>>, Floats(Down(VecLen))),
             NdArray(<<1>>, <<Int_(1)>>)}
Arrays2D == {NdArray(<<1, VecLen>>, Ints(Ramp(VecLen))), NdArray(<<1, 1>>, <<Float_(1)>>)}

isinstance_ndarray(v) == v.t = "ndarray"

\* ---------------------------------------------------------------- messages
GuiSetValueMessage(n, v) == [type |-> "GuiSetValueMessage", name |-> n, value |-> v]
GuiSetLevaConfMessage(n, conf) == [type |-> "GuiSetLevaConfMessage", name |-> n, leva_conf |-> conf]
GuiSetHiddenMessage(n, h) == [type |-> "GuiSetHiddenMessage", name |-> n, hidden |-> h]
GuiRemoveMessage(n) == [type |-> "GuiRemoveMessage", name |-> n]

\* ---------------------------------------------------------------- state
VARIABLES
    handle,         \* class of the handle: "GuiHandle" or "GuiSelectHandle"
    name,           \* _impl.name
    is_button,      \* _impl.is_button
    value,          \* _impl.value
    last_updated,   \* _impl.last_updated
    update_cb,      \* _impl.update_cb, in registration order
    leva_conf,      \* _impl.leva_conf, a dict: a function from its keys
    cleanup_cb,     \* _impl.cleanup_cb: "None" or "cleanup"
    encoder,        \* _impl.encoder
    queue,          \* the messages handed to _impl.api._queue, oldest first
    now,            \* the last reading of time.time(), a logical clock
    cleanup_calls,  \* how many times cleanup_cb has been invoked
    ncalls,         \* history: how many calls have been made on the handle
    wrote,          \* history: the argument (after array conversion) last stored
    threads,        \* per thread: where it is in set_value, and its locals
    overlapped,     \* history: a set_value began while another was in progress
    last            \* history: the last call, its argument, outcome and pre-state

vars == <<handle, name, is_button, value, last_updated, update_cb, leva_conf,
          cleanup_cb, encoder, queue, now, cleanup_calls, ncalls, wrote, threads,
          overlapped, last>>

const == <<handle, name, is_button, cleanup_cb, encoder>>

\* the part of the state a call can change, as a record the steps transform
Cur == [value |-> value, last_updated |-> last_updated, update_cb |-> update_cb,
        leva_conf |-> leva_conf, queue |-> queue, now |-> now,
        cleanup_calls |-> cleanup_calls, calls |-> <<>>, raised |-> "None",
        ret |-> "None", wrote |-> wrote]

\* the state the steps computed becomes the state of the control
Apply(S) ==
    /\ value' = S.value
    /\ last_updated' = S.last_updated
    /\ update_cb' = S.update_cb
    /\ leva_conf' = S.leva_conf
    /\ queue' = S.queue
    /\ now' = S.now
    /\ cleanup_calls' = S.cleanup_calls
    /\ wrote' = S.wrote
    /\ UNCHANGED const

Commit(S, op, arg) ==
    /\ Apply(S)
    /\ ncalls' = ncalls + 1
    /\ last' = [op |-> op, arg |-> arg, raised |-> S.raised, calls |-> S.calls,
                ret |-> S.ret,
                pre |-> [value |-> value, last_updated |-> last_updated,
                         update_cb |-> update_cb, leva_conf |-> leva_conf,
                         queue |-> queue, cleanup_calls |-> cleanup_calls]]
    /\ UNCHANGED <<threads, overlapped>>

Raise(S, exc) == [S EXCEPT !.raised = exc]

\* ---------------------------------------------------------------- GuiHandle
get_value(S) == S.value

get_update_timestamp(S) == S.last_updated

\* self._impl.encoder(value): the default lambda x: x, or an encoder the
\* factory injected (here one that turns a vector into a dict keyed "rgb")
encode(v) ==
    IF encoder = "identity" THEN v ELSE Dict_("rgb", v.e)

\* mutant: the value is stored as passed, without type(self._impl.value)(...)
Coerce_Keep(old, v) == v

\* type(self._impl.value)(value)
Coerce(old, v) ==
    CASE old.t = "str" -> Str(v.s)
      [] old.t = "tuple" -> Tuple_(v.e)
      [] old.t = "list" -> List_(v.e)
      [] old.t = "bool" -> Bool(v.b)

\* tuple(map(float, value))
TupleOfFloats(arr) == Tuple_([i \in 1..Len(arr.e) |-> Float_(arr.e[i].n)])

\* mutant: the message is queued for buttons too
QueueStep_Always(S, v) ==
    [S EXCEPT !.queue = Append(S.queue, GuiSetValueMessage(name, encode(v)))]

\* mutant: the message carries the value stored at the time, not the argument
QueueStep_Stored(S, v) ==
    IF ~is_button
    THEN [S EXCEPT !.queue = Append(S.queue, GuiSetValueMessage(name, encode(S.value)))]
    ELSE S

QueueStep(S, v) ==
    IF ~is_button
    THEN [S EXCEPT !.queue = Append(S.queue, GuiSetValueMessage(name, encode(v)))]
    ELSE S

\* mutant: the timestamp is taken only when the value changes
StoreStep_SkipSame(S, v) ==
    IF Coerce(S.value, v) = S.value THEN S
    ELSE [S EXCEPT !.value = Coerce(S.value, v), !.now = S.now + 1,
                   !.last_updated = S.now + 1, !.wrote = v]

\* self._impl.value = type(self._impl.value)(value)
StoreValue(S, v) == [S EXCEPT !.value = Coerce(S.value, v), !.wrote = v]

\* self._impl.last_updated = time.time()
StampTime(S) == [S EXCEPT !.now = S.now + 1, !.last_updated = S.now + 1]

StoreStep(S, v) == StampTime(StoreValue(S, v))

\* list.remove(x): the first occurrence of x leaves the list
ListRemove(l, x) ==
    IF x \notin Elems(l) THEN l
    ELSE LET k == CHOOSE i \in 1..Len(l) : l[i] = x /\ \A j \in 1..(i - 1) : l[j] # x
         IN [i \in 1..(Len(l) - 1) |-> IF i < k THEN l[i] ELSE l[i + 1]]

\* the value cb_set sets: one of the control's own type
SetTarget(S) ==
    CASE S.value.t = "str" -> Str("a")
      [] S.value.t = "bool" -> Bool(FALSE)
      [] OTHER -> Coerce(S.value, Tuple_(Zeros))

RECURSIVE SetValueImpl(_, _)

\* cb(self): the observer reads get_value(), then does what it does
Invoke(S, cb) ==
    LET S1 == [S EXCEPT !.calls = Append(S.calls, [cb |-> cb, seen |-> get_value(S)])]
    IN CASE cb = "cb_raise" -> Raise(S1, "ObserverError")
         [] cb = "cb_register" -> [S1 EXCEPT !.update_cb = Append(S1.update_cb, "cb2")]
         [] cb = "cb_unregister" -> [S1 EXCEPT !.update_cb = ListRemove(S1.update_cb, cb)]
         [] cb = "cb_set" -> IF get_value(S1) # SetTarget(S1)
                             THEN SetValueImpl(S1, SetTarget(S1))
                             ELSE S1
         [] OTHER -> S1

\* mutant: an exception of an observer is swallowed and the loop goes on
Propagates_Never(S) == FALSE

\* an exception raised inside the loop leaves it
Propagates(S) == S.raised # "None"

\* The for loop walks the live list by position: it ends when the position
\* passes the current length of the list.
RECURSIVE NotifyFrom(_, _)
NotifyFrom(S, i) ==
    IF i > Len(S.update_cb) THEN S
    ELSE LET S1 == Invoke(S, S.update_cb[i])
         IN IF Propagates(S1) THEN S1 ELSE NotifyFrom(S1, i + 1)

\* for cb in self._impl.update_cb: cb(self)
NotifyStep(S) == NotifyFrom(S, 1)

\* mutant: the callbacks run before the value is stored
SetValueBody_NotifyFirst(S, v) == StoreStep(NotifyStep(QueueStep(S, v)), v)

\* mutant: the message is queued after the callbacks have run
SetValueBody_QueueLast(S, v) == QueueStep(NotifyStep(StoreStep(S, v)), v)

SetValueBody(S, v) == NotifyStep(StoreStep(QueueStep(S, v), v))

\* mutant: no assertion on the shape, the array is converted whatever its rank
SetValueImpl_NoAssert(S, arg) ==
    IF isinstance_ndarray(arg)
    THEN IF Len(arg.shape) = 0 THEN Raise(S, "TypeError")
         ELSE SetValueBody(S, TupleOfFloats(arg))
    ELSE SetValueBody(S, arg)

\* The assert rejects rank >= 2; a 0-d array passes it and map(float, value)
\* then raises TypeError (iteration over a 0-d array), before any write.
SetValueImpl(S, arg) ==
    IF isinstance_ndarray(arg)
    THEN IF ~(Len(arg.shape) <= 1) THEN Raise(S, "AssertionError")
         ELSE IF Len(arg.shape) = 0 THEN Raise(S, "TypeError")
         ELSE SetValueBody(S, TupleOfFloats(arg))
    ELSE SetValueBody(S, arg)

SetValueArgs ==
    CASE value.t = "str" -> {Str(s) : s \in Strings}
      [] value.t = "bool" -> {Bool(b) : b \in BOOLEAN}
      [] OTHER -> {Tuple_(Floats(Ramp(VecLen))), List_(Floats(Down(VecLen)))}
                  \cup Arrays0D \cup Arrays1D \cup Arrays2D

\* mutant: the top-level field is written on buttons too
SetDisabledImpl_TopLevel(S, disabled) ==
    LET conf == DictSet(S.leva_conf, "disabled", disabled)
    IN [S EXCEPT !.leva_conf = conf,
                 !.queue = Append(S.queue, GuiSetLevaConfMessage(name, conf))]

SetDisabledImpl(S, disabled) ==
    LET conf == IF is_button
                THEN DictSet(S.leva_conf, "settings",
                             DictSet(S.leva_conf["settings"], "disabled", disabled))
                ELSE DictSet(S.leva_conf, "disabled", disabled)
    IN [S EXCEPT !.leva_conf = conf,
                 !.queue = Append(S.queue, GuiSetLevaConfMessage(name, conf))]

\* mutant: the hidden flag is mirrored into the configuration, as disabled is
SetHiddenImpl_Mirrored(S, hidden) ==
    [S EXCEPT !.leva_conf = DictSet(S.leva_conf, "hidden", hidden),
              !.queue = Append(S.queue, GuiSetHiddenMessage(name, hidden))]

SetHiddenImpl(S, hidden) ==
    [S EXCEPT !.queue = Append(S.queue, GuiSetHiddenMessage(name, hidden))]

\* The message is queued before the assertion on cleanup_cb is evaluated.
RemoveImpl(S) ==
    LET S1 == [S EXCEPT !.queue = Append(S.queue, GuiRemoveMessage(name))]
    IN IF ~(cleanup_cb # "None") THEN Raise(S1, "AssertionError")
       ELSE [S1 EXCEPT !.cleanup_calls = S.cleanup_calls + 1]

\* ---------------------------------------------------------------- GuiSelectHandle
\* self._impl.leva_conf["value"] not in options
NeedsOverwrite(S, options) == S.leva_conf["value"] \notin Elems(options)

\* mutant: the configuration is queued before the repaired value is written to it
SetOptionsImpl_StaleConf(S, options) ==
    LET S1 == [S EXCEPT !.leva_conf = DictSet(S.leva_conf, "options", options)]
        overwrite_value == NeedsOverwrite(S1, options)
        S2 == [S1 EXCEPT !.queue = Append(S1.queue,
                                          GuiSetLevaConfMessage(name, S1.leva_conf))]
    IN IF overwrite_value /\ Len(options) = 0 THEN Raise(S1, "IndexError")
       ELSE IF overwrite_value
            THEN SetValueImpl([S2 EXCEPT !.leva_conf =
                                   DictSet(S2.leva_conf, "value", options[1])], options[1])
            ELSE S2

\* options[0] raises IndexError on an empty list, after the options were
\* written and before anything is queued.
SetOptionsImpl(S, options) ==
    LET S1 == [S EXCEPT !.leva_conf = DictSet(S.leva_conf, "options", options)]
        overwrite_value == NeedsOverwrite(S1, options)
    IN IF overwrite_value /\ Len(options) = 0 THEN Raise(S1, "IndexError")
       ELSE LET S2 == IF overwrite_value
                      THEN [S1 EXCEPT !.leva_conf = DictSet(S1.leva_conf, "value", options[1])]
                      ELSE S1
                S3 == [S2 EXCEPT !.queue = Append(S2.queue,
                                                  GuiSetLevaConfMessage(name, S2.leva_conf))]
            IN IF overwrite_value THEN SetValueImpl(S3, options[1]) ELSE S3

\* ---------------------------------------------------------------- calls
\* One action per method call, the whole call in one step: the methods do not
\* suspend, and the observers of this specification return normally without
\* calling back into the handle.
Room == ncalls < MaxCalls

on_update(func) ==
    /\ Room
    /\ Commit([Cur EXCEPT !.update_cb = Append(update_cb, func)], "on_update", func)

GetValue ==
    /\ Room
    /\ Commit([Cur EXCEPT !.ret = get_value(Cur)], "get_value", "None")

GetUpdateTimestamp ==
    /\ Room
    /\ Commit([Cur EXCEPT !.ret = get_update_timestamp(Cur)], "get_update_timestamp", "None")

set_value(arg) ==
    /\ Room
    /\ Commit(SetValueImpl(Cur, arg), "set_value", arg)

set_disabled(disabled) ==
    /\ Room
    /\ Commit(SetDisabledImpl(Cur, disabled), "set_disabled", disabled)

set_hidden(hidden) ==
    /\ Room
    /\ Commit(SetHiddenImpl(Cur, hidden), "set_hidden", hidden)

remove ==
    /\ Room
    /\ Commit(RemoveImpl(Cur), "remove", "None")

set_options(options) ==
    /\ handle = "GuiSelectHandle"
    /\ Room
    /\ Commit(SetOptionsImpl(Cur, options), "set_options", options)

Init ==
    /\ name \in Names
    /\ cleanup_cb \in {"None", "cleanup"}
    /\ \/ /\ handle = "GuiSelectHandle"
          /\ is_button = FALSE
          /\ value \in {Str("a"), Str("b")}
          /\ leva_conf = [value |-> value, label |-> name, options |-> <<Str("a"), Str("b")>>]
          /\ encoder = "identity"
       \/ /\ handle = "GuiHandle"
          /\ is_button = FALSE
          /\ value \in {Tuple_(Zeros), List_(Zeros)}
          /\ leva_conf = [value |-> value, label |-> name]
          /\ encoder \in {"identity", "rgb"}
       \/ /\ handle = "GuiHandle"
          /\ is_button = TRUE
          /\ value = Bool(FALSE)
          /\ leva_conf = [type |-> "BUTTON", label |-> name, settings |-> [disabled |-> FALSE]]
          /\ encoder = "identity"
    /\ last_updated = 0
    /\ now = 0
    /\ update_cb = <<>>
    /\ queue = <<>>
    /\ cleanup_calls = 0
    /\ ncalls = 0
    /\ wrote = "None"
    /\ threads = [t \in Threads |-> IdleThread]
    /\ overlapped = FALSE
    /\ last = [op |-> "init"]

Next ==
    \/ \E func \in Callbacks : on_update(func)
    \/ GetValue
    \/ GetUpdateTimestamp
    \/ \E arg \in SetValueArgs : set_value(arg)
    \/ \E disabled \in BOOLEAN : set_disabled(disabled)
    \/ \E hidden \in BOOLEAN : set_hidden(hidden)
    \/ remove
    \/ \E options \in OptionLists : set_options(options)

Spec == Init /\ [][Next]_vars

\* ---------------------------------------------------------------- threads
\* set_value called from two threads with no lock: each thread runs the
\* statements of set_value one at a time, interleaved with the other's.
\* pc names the statement the thread executes next; v, t and i are its locals
\* (the converted argument, the clock reading, the position in the list).
At(t, pc) == threads[t].pc = pc
Goto(t, pc) == threads' = [threads EXCEPT ![t].pc = pc]

\* lines 103-105: the argument is checked and converted, or the call raises
Call(t, arg) ==
    /\ At(t, "idle")
    /\ Room
    /\ ncalls' = ncalls + 1
    /\ LET rejected == isinstance_ndarray(arg) /\ Len(arg.shape) # 1
           v == IF isinstance_ndarray(arg) THEN TupleOfFloats(arg) ELSE arg
       IN IF rejected
          THEN UNCHANGED <<threads, overlapped>>
          ELSE /\ threads' = [threads EXCEPT ![t].pc = "queue", ![t].v = v]
               /\ overlapped' = (overlapped \/ \E u \in Threads \ {t} : ~At(u, "idle"))
    /\ Apply(Cur)
    /\ UNCHANGED last

\* lines 108-111
Queue(t) ==
    /\ At(t, "queue")
    /\ Apply(QueueStep(Cur, threads[t].v))
    /\ Goto(t, "store")
    /\ UNCHANGED <<ncalls, overlapped, last>>

\* line 115
Store(t) ==
    /\ At(t, "store")
    /\ Apply(StoreValue(Cur, threads[t].v))
    /\ Goto(t, "clock")
    /\ UNCHANGED <<ncalls, overlapped, last>>

\* line 116, time.time()
Clock(t) ==
    /\ At(t, "clock")
    /\ Apply([Cur EXCEPT !.now = now + 1])
    /\ threads' = [threads EXCEPT ![t].pc = "stamp", ![t].t = now + 1]
    /\ UNCHANGED <<ncalls, overlapped, last>>

\* line 116, the assignment to last_updated
Stamp(t) ==
    /\ At(t, "stamp")
    /\ Apply([Cur EXCEPT !.last_updated = threads[t].t])
    /\ threads' = [threads EXCEPT ![t].pc = "notify", ![t].i = 1]
    /\ UNCHANGED <<ncalls, overlapped, last>>

\* lines 119-120, one callback
Notify(t) ==
    /\ At(t, "notify")
    /\ threads[t].i <= Len(update_cb)
    /\ Apply(Invoke(Cur, update_cb[threads[t].i]))
    /\ threads' = [threads EXCEPT ![t].i = threads[t].i + 1]
    /\ UNCHANGED <<ncalls, overlapped, last>>

\* line 122
Return(t) ==
    /\ At(t, "notify")
    /\ threads[t].i > Len(update_cb)
    /\ threads' = [threads EXCEPT ![t] = [IdleThread EXCEPT
                                            !.returned = threads[t].returned + 1]]
    /\ Apply(Cur)
    /\ UNCHANGED <<ncalls, overlapped, last>>

\* a select control, and a list-valued vector control with the rgb encoder
InitThreads ==
    /\ Init
    /\ ~is_button
    /\ name = "gui_x"
    /\ cleanup_cb = "cleanup"
    /\ value \in {Str("a"), List_(Zeros)}
    /\ value.t = "list" => encoder = "rgb"

NextThreads ==
    \/ on_update("cb1")
    \/ \E t \in Threads, arg \in SetValueArgs : Call(t, arg)
    \/ \E t \in Threads : Queue(t)
    \/ \E t \in Threads : Store(t)
    \/ \E t \in Threads : Clock(t)
    \/ \E t \in Threads : Stamp(t)
    \/ \E t \in Threads : Notify(t)
    \/ \E t \in Threads : Return(t)

SpecThreads == InitThreads /\ [][NextThreads]_vars

\* The same calls on a control whose observers may be the active ones.
InitObservers == Init /\ name = "gui_x" /\ cleanup_cb = "cleanup"

NextObservers ==
    \/ \E func \in Callbacks \cup ActiveCallbacks : on_update(func)
    \/ \E arg \in SetValueArgs : set_value(arg)
    \/ \E disabled \in BOOLEAN : set_disabled(disabled)
    \/ \E hidden \in BOOLEAN : set_hidden(hidden)
    \/ remove
    \/ \E options \in OptionLists : set_options(options)

SpecObservers == InitObservers /\ [][NextObservers]_vars

\* ---------------------------------------------------------------- properties
Called(op) == last.op = op
Accepted(op) == last.op = op /\ last.raised = "None"
\* the messages the last call queued
Added == SubSeq(queue, Len(last.pre.queue) + 1, Len(queue))
QueueKept == Len(queue) >= Len(last.pre.queue)
                /\ SubSeq(queue, 1, Len(last.pre.queue)) = last.pre.queue
CountType(q, type) == Cardinality({i \in 1..Len(q) : q[i].type = type})
\* one invocation per registration, in registration order, each seeing v
OneRound(v) == [i \in 1..Len(update_cb) |-> [cb |-> update_cb[i], seen |-> v]]
NothingChanged ==
    /\ value = last.pre.value
    /\ last_updated = last.pre.last_updated
    /\ update_cb = last.pre.update_cb
    /\ leva_conf = last.pre.leva_conf
    /\ queue = last.pre.queue
    /\ cleanup_calls = last.pre.cleanup_calls
    /\ last.calls = <<>>

\* C1: set_options(opts) with the stored value a member of opts queues exactly
\* one SetDisplayConfig message and no SetValue message, invokes no observer
\* and leaves the stored value unchanged.
C1_MemberNoRepair ==
    (Called("set_options") /\ last.pre.value \in Elems(last.arg)) =>
        /\ QueueKept
        /\ Len(Added) = 1
        /\ Added[1].type = "GuiSetLevaConfMessage"
        /\ CountType(Added, "GuiSetValueMessage") = 0
        /\ last.calls = <<>>
        /\ value = last.pre.value

\* C2: set_options(opts) with non-empty opts and the stored value not a member
\* of opts queues one SetDisplayConfig message followed by one SetValue message
\* carrying opts[0], invokes each registered observer exactly once, and on
\* return get_value() is opts[0].
C2_NonMemberRepaired ==
    (Called("set_options") /\ Len(last.arg) > 0 /\ last.pre.value \notin Elems(last.arg)) =>
        /\ QueueKept
        /\ Len(Added) = 2
        /\ Added[1].type = "GuiSetLevaConfMessage"
        /\ Added[2].type = "GuiSetValueMessage"
        /\ Added[2].value = last.arg[1]
        /\ last.calls = OneRound(last.arg[1])
        /\ value = last.arg[1]
        /\ value \in Elems(last.arg)

\* v is arg normalized to the type of old: an array becomes the sequence of its
\* elements as floats, in order; anything else keeps its content
IsNormalized(v, old, arg) ==
    /\ v.t = old.t
    /\ IF arg.t = "ndarray"
       THEN /\ Len(v.e) = Len(arg.e)
            /\ \A i \in 1..Len(v.e) : v.e[i].k = "float" /\ v.e[i].n = arg.e[i].n
       ELSE v.s = arg.s /\ v.e = arg.e /\ v.b = arg.b

\* C3: every set_value call that is not rejected invokes each registered
\* observer once per registration, in registration order, before it returns,
\* and every observer invoked sees the new value through get_value().
C3_ObserversOncePerRegistration ==
    Accepted("set_value") =>
        /\ Len(last.calls) = Len(last.pre.update_cb)
        /\ \A i \in 1..Len(last.calls) :
              /\ last.calls[i].cb = last.pre.update_cb[i]
              /\ IsNormalized(last.calls[i].seen, last.pre.value, last.arg)
              /\ last.calls[i].seen = get_value(Cur)
        /\ update_cb = last.pre.update_cb

C3_Witness ==
    /\ Accepted("set_value")
    /\ Len(update_cb) = 2
    /\ update_cb[1] = update_cb[2]
    /\ value # last.pre.value

\* C4: get_value() right after an accepted set_value(v) returns v normalized to
\* the control's value type (a 1-D array becomes the ordered sequence of its
\* elements in the container type of the existing value); so the last accepted
\* set_value decides get_value().
C4_GetAfterSet ==
    Accepted("set_value") => IsNormalized(get_value(Cur), last.pre.value, last.arg)

C4_Witness ==
    /\ Accepted("set_value")
    /\ last.arg.t = "ndarray"
    /\ last.pre.value.t = "list"
    /\ last.arg.e[1].k = "int"
    /\ last.pre.last_updated > 0

\* C5: on a button no set_value call ever queues a SetValue message, yet each
\* call stores the value, advances last_updated and notifies the observers; on
\* any other control every accepted set_value queues exactly one SetValue
\* message addressed by the control's name.
C5_ButtonsQueueNoValue ==
    /\ is_button => CountType(queue, "GuiSetValueMessage") = 0
    /\ Accepted("set_value") =>
          IF is_button
          THEN /\ queue = last.pre.queue
               /\ value.b = last.arg.b
               /\ last_updated > last.pre.last_updated
               /\ last.calls = OneRound(value)
          ELSE /\ QueueKept
               /\ Len(Added) = 1
               /\ Added[1].type = "GuiSetValueMessage"
               /\ Added[1].name = name

C5_Witness ==
    /\ Accepted("set_value")
    /\ is_button
    /\ value = Bool(TRUE)
    /\ Len(update_cb) > 0

\* C6: set_value with an array of more than one dimension is rejected with an
\* error and changes nothing: value, last_updated, configuration and queue are
\* as before and no observer is invoked.
C6_RankTwoRejected ==
    (Called("set_value") /\ last.arg.t = "ndarray" /\ Len(last.arg.shape) > 1) =>
        /\ last.raised # "None"
        /\ NothingChanged

C6_Witness ==
    /\ Called("set_value")
    /\ last.arg.t = "ndarray"
    /\ Len(last.arg.shape) = 2
    /\ last.raised = "AssertionError"
    /\ Len(queue) > 0
    /\ Len(update_cb) > 0

\* C7: on a control with cleanup wired, remove() invokes cleanup once and queues
\* one Remove message, and a second remove() is rejected or does nothing: over
\* any sequence of calls cleanup runs at most once and at most one Remove
\* message is queued.
C7_RemoveAtMostOnce ==
    cleanup_cb # "None" =>
        /\ Accepted("remove") =>
              /\ cleanup_calls = last.pre.cleanup_calls + 1
              /\ QueueKept
              /\ Len(Added) = 1
              /\ Added[1].type = "GuiRemoveMessage"
        /\ cleanup_calls <= 1
        /\ CountType(queue, "GuiRemoveMessage") <= 1

\* C8: removal is terminal: once remove() has returned, no later set_value,
\* set_disabled, set_hidden or set_options call is accepted; no message is
\* queued, value, last_updated and configuration stay, no observer is invoked.
C8_RemovalTerminal ==
    (/\ last.op \in {"set_value", "set_disabled", "set_hidden", "set_options"}
     /\ last.pre.cleanup_calls > 0) =>
        /\ last.raised # "None"
        /\ NothingChanged

\* the keys of dict d other than k are those of dict d0, with the same values
OtherKeysKept(d, d0, k) ==
    /\ DOMAIN d \ {k} = DOMAIN d0 \ {k}
    /\ \A x \in DOMAIN d \ {k} : d[x] = d0[x]

\* C9: set_disabled(d) writes d to the top-level disabled field on a non-button
\* and to settings.disabled on a button, changes no other field, and queues
\* exactly one SetDisplayConfig message carrying the full configuration; so the
\* field holds the argument of the last call and each call adds one message.
C9_SetDisabled ==
    Called("set_disabled") =>
        /\ last.raised = "None"
        /\ IF is_button
           THEN /\ leva_conf["settings"]["disabled"] = last.arg
                /\ OtherKeysKept(leva_conf, last.pre.leva_conf, "settings")
                /\ "settings" \in DOMAIN last.pre.leva_conf
                /\ OtherKeysKept(leva_conf["settings"], last.pre.leva_conf["settings"],
                                 "disabled")
           ELSE /\ leva_conf["disabled"] = last.arg
                /\ OtherKeysKept(leva_conf, last.pre.leva_conf, "disabled")
        /\ QueueKept
        /\ Len(Added) = 1
        /\ Added[1].type = "GuiSetLevaConfMessage"
        /\ Added[1].name = name
        /\ Added[1].leva_conf = leva_conf
        /\ value = last.pre.value
        /\ last_updated = last.pre.last_updated
        /\ last.calls = <<>>

\* set_disabled(True) then set_disabled(False): two messages, disabled False
C9_Witness ==
    /\ Called("set_disabled")
    /\ ~is_button
    /\ last.arg = FALSE
    /\ "disabled" \in DOMAIN last.pre.leva_conf
    /\ last.pre.leva_conf["disabled"] = TRUE
    /\ leva_conf["disabled"] = FALSE
    /\ CountType(queue, "GuiSetLevaConfMessage") = 2

\* C10: set_hidden(h) queues exactly one SetHidden message carrying the name and
\* h, leaves configuration, value, last_updated and the observer list unchanged
\* and invokes no observer.
C10_SetHidden ==
    Called("set_hidden") =>
        /\ last.raised = "None"
        /\ QueueKept
        /\ Len(Added) = 1
        /\ Added[1].type = "GuiSetHiddenMessage"
        /\ Added[1].name = name
        /\ Added[1].hidden = last.arg
        /\ leva_conf = last.pre.leva_conf
        /\ value = last.pre.value
        /\ last_updated = last.pre.last_updated
        /\ update_cb = last.pre.update_cb
        /\ last.calls = <<>>

C10_Witness ==
    /\ Called("set_hidden")
    /\ last.arg = TRUE
    /\ Len(update_cb) > 0
    /\ "disabled" \in DOMAIN leva_conf

\* C13: set_options with an empty option list, when a repair is required, is
\* rejected with nothing mutated and nothing queued: options and value fields
\* of the configuration, stored value, last_updated and queue are as before.
C13_EmptyOptionsRejected ==
    (Called("set_options") /\ Len(last.arg) = 0) =>
        /\ last.raised # "None"
        /\ NothingChanged

\* the last call was a set_options that found the configuration's value field
\* outside its non-empty argument, the test by which the code decides to repair
RepairMade ==
    /\ Called("set_options")
    /\ Len(last.arg) > 0
    /\ last.pre.leva_conf["value"] \notin Elems(last.arg)

\* C14 as stated: when set_options(opts) needs a repair, the SetDisplayConfig
\* message it queues carries the value from before the repair, not opts[0], and
\* opts[0] reaches the queue only in the SetValue message that follows.
C14_ConfigCarriesStaleValue ==
    RepairMade =>
        /\ Len(Added) = 2
        /\ Added[1].type = "GuiSetLevaConfMessage"
        /\ Added[1].leva_conf["value"] \in {last.pre.leva_conf["value"], last.pre.value}
        /\ Added[1].leva_conf["value"] # last.arg[1]
        /\ Added[2].type = "GuiSetValueMessage"
        /\ Added[2].value = last.arg[1]

\* C14 amended: when set_options(opts) makes a repair, the SetDisplayConfig
\* message it queues already carries opts[0] in its value field, together with
\* the new options, and the SetValue message that follows carries opts[0] too.
C14_ConfigCarriesRepairedValue ==
    RepairMade =>
        /\ QueueKept
        /\ Len(Added) = 2
        /\ Added[1].type = "GuiSetLevaConfMessage"
        /\ Added[1].leva_conf["value"] = last.arg[1]
        /\ Added[1].leva_conf["options"] = last.arg
        /\ Added[2].type = "GuiSetValueMessage"
        /\ Added[2].value = last.arg[1]

C14_Witness ==
    /\ RepairMade
    /\ last.pre.value # last.arg[1]
    /\ last.pre.leva_conf["value"] # last.pre.value
    /\ Len(last.arg) = 2

\* C16: on a select control whose configuration value field starts equal to the
\* stored value, after any sequence of completed calls the value field equals
\* the stored value, so every SetDisplayConfig message queued carries the
\* control's current value.
C16_ConfigValueIsStoredValue ==
    handle = "GuiSelectHandle" =>
        /\ leva_conf["value"] = value
        /\ (last.op \in {"set_disabled", "set_options"} /\ last.raised = "None") =>
              Added[1].leva_conf["value"] = value

\* C18: remove() on a control with no cleanup wired fails with an error, and
\* the failed call leaves the queue unchanged: no Remove message is queued.
C18_FailedRemoveQueuesNothing ==
    (Called("remove") /\ cleanup_cb = "None") =>
        /\ last.raised # "None"
        /\ queue = last.pre.queue
        /\ CountType(queue, "GuiRemoveMessage") = 0

\* C19: the stored value and last_updated change only through set_value:
\* on_update, get_value, get_update_timestamp, set_disabled, set_hidden, remove,
\* and set_options when it makes no repair leave both unchanged and invoke no
\* observer; every accepted set_value strictly advances last_updated, also when
\* the new value equals the old one.
C19_OnlySetValueWrites ==
    /\ (\/ last.op \in {"on_update", "get_value", "get_update_timestamp",
                        "set_disabled", "set_hidden", "remove"}
        \/ Called("set_options") /\ ~RepairMade) =>
          /\ value = last.pre.value
          /\ last_updated = last.pre.last_updated
          /\ last.calls = <<>>
    /\ Called("get_value") => last.ret = last.pre.value
    /\ Called("get_update_timestamp") => last.ret = last.pre.last_updated
    /\ Accepted("set_value") => last_updated > last.pre.last_updated
    /\ RepairMade => last_updated > last.pre.last_updated

C19_Witness ==
    /\ Accepted("set_value")
    /\ value = last.pre.value
    /\ last_updated > last.pre.last_updated
    /\ last.pre.last_updated > 0

\* the observers the last call invoked, in the order it invoked them
Invoked == [i \in 1..Len(last.calls) |-> last.calls[i].cb]
\* the value the last call asked to store
Requested == IF Called("set_options") THEN last.arg[1] ELSE last.arg
FirstIndex(l, x) == CHOOSE i \in 1..Len(l) : l[i] = x /\ \A j \in 1..(i - 1) : l[j] # x

\* C11: if an observer raises during a set_value round (also the round of a
\* repair by set_options), the exception reaches the caller, the observers
\* registered after the failing one are not invoked in that round, and nothing
\* is rolled back: the new value and last_updated stay stored and the messages
\* already queued stay queued.
C11_ObserverFailurePropagates ==
    (last.op \in {"set_value", "set_options"} /\ "cb_raise" \in Elems(Invoked)) =>
        /\ last.raised = "ObserverError"
        /\ Invoked[Len(Invoked)] = "cb_raise"
        /\ \A i \in 1..(Len(Invoked) - 1) : Invoked[i] # "cb_raise"
        /\ Elems(last.pre.update_cb) \subseteq Callbacks \cup {"cb_raise"} =>
              Invoked = SubSeq(last.pre.update_cb, 1, FirstIndex(last.pre.update_cb, "cb_raise"))
        /\ "cb_set" \notin Elems(last.pre.update_cb) =>
              IsNormalized(value, last.pre.value, Requested)
        /\ last.calls[Len(last.calls)].seen = value
        /\ last_updated > last.pre.last_updated
        /\ QueueKept
        /\ ~is_button =>
              /\ Len(Added) >= 1
              /\ Added[Len(Added)].type = "GuiSetValueMessage"
        /\ Called("set_options") =>
              /\ Added[1].type = "GuiSetLevaConfMessage"
              /\ leva_conf["options"] = last.arg

C11_Witness ==
    /\ Called("set_value")
    /\ last.raised = "ObserverError"
    /\ last.pre.update_cb = <<"cb_raise", "cb1">>
    /\ Invoked = <<"cb_raise">>
    /\ value # last.pre.value

\* C12: the observers notified in one set_value round are exactly those
\* registered when the round began: an observer removed from inside a callback
\* does not make a remaining observer be skipped, and an observer registered
\* from inside a callback is not invoked in the current round.
C12_RoundNotifiesRegistered ==
    (Accepted("set_value") /\ "cb_set" \notin Elems(last.pre.update_cb)) =>
        Invoked = last.pre.update_cb

\* the last SetValue message of the queue
LastValueMessage ==
    queue[CHOOSE i \in 1..Len(queue) :
              /\ queue[i].type = "GuiSetValueMessage"
              /\ \A j \in (i + 1)..Len(queue) : queue[j].type # "GuiSetValueMessage"]

\* C17: with calls on a non-button control made one at a time (set_value calls
\* made from inside an observer and by set_options included), once a set_value
\* has stored a value the last SetValue message queued carries the encoding of
\* the argument of the set_value that last wrote the stored value.
C17_LastMessageIsLastWrite ==
    (~is_button /\ last_updated > 0) =>
        /\ CountType(queue, "GuiSetValueMessage") > 0
        /\ LastValueMessage.name = name
        /\ LastValueMessage.value = encode(wrote)
        /\ value = Coerce(value, wrote)

C17_Witness ==
    /\ Accepted("set_value")
    /\ "cb_set" \in Elems(Invoked)
    /\ Len(Added) = 2
    /\ Added[1].value # Added[2].value
    /\ Len(Invoked) > Len(update_cb)

AllIdle == \A t \in Threads : At(t, "idle")
\* the last SetValue message queued does not carry what is stored
Disagree ==
    \/ LastValueMessage.value # encode(wrote)
    \/ LastValueMessage.value # encode(value)

\* C15: set_value is not guarded against concurrent calls: two calls on the same
\* non-button control from two threads, interleaved between queueing, storing
\* and notifying, can return with the stored value different from the value of
\* the last SetValue message queued (C15_Witness is that state); calls that do
\* not overlap never end so.
C15_DisagreementNeedsOverlap ==
    (AllIdle /\ last_updated > 0) =>
        /\ value = Coerce(value, wrote)
        /\ CountType(queue, "GuiSetValueMessage") > 0
        /\ LastValueMessage.name = name
        /\ Disagree => overlapped

C15_Witness ==
    /\ AllIdle
    /\ \A t \in Threads : threads[t].returned >= 1
    /\ CountType(queue, "GuiSetValueMessage") = 2
    /\ LastValueMessage.value # encode(wrote)
    /\ LastValueMessage.value # encode(value)

====
